---- MODULE Spec2Model ----
(***************************************************************************)
(* Model of the Jira review tracker: status-transition extraction          *)
(* (jira_client.py), bounce-back detection and time-in-state               *)
(* reconstruction (utils.py) and the batch loop of the dashboard           *)
(* (dashboard.py).                                                         *)
(*                                                                         *)
(* Text is modelled as sequences of one-character strings, so that         *)
(* strip(), lower(), replace() and the offset regex act on characters.     *)
(* A timestamp string is the record [wall, frac, tz]: it stands for        *)
(*   "2024-01-15T<wall as hh>:00:00" \o frac \o tz                         *)
(* and the empty string is [wall |-> -1, frac |-> <<>>, tz |-> <<>>].      *)
(***************************************************************************)
EXTENDS Integers, Sequences, FiniteSets, TLC

VARIABLES
    pc,              \* position of the running scenario
    changelog,       \* histories handed to extract_status_transitions
    transitions,     \* transition list handed to the detector / reconstructor
    created_date,    \* fields.get("created"): None, "" or a timestamp string
    clock,           \* wall clock (UTC hour) at the moment of the call
    bounce_backs,    \* value returned by detect_bounce_backs
    time_in_states,  \* outcome of compute_time_in_states
    issue_keys,      \* dashboard: keys of the batch
    server,          \* dashboard: what the Jira server holds for each key
    index,           \* dashboard: loop index of the batch loop (0-based)
    all_ticket_data, \* dashboard: tickets analysed so far
    warnings,        \* dashboard: keys reported with st.warning
    session_state,   \* dashboard: st.session_state["ticket_data"], or None
    memory,          \* the Python objects of a call: dicts, input list, result
    start_at,        \* get_changelog: startAt of the next request
    all_histories,   \* get_changelog: histories accumulated so far
    response,        \* get_changelog: the server's answer being handled
    issue            \* dashboard: value returned by get_issue for the current key

vars == <<pc, changelog, transitions, created_date, clock, bounce_backs,
          time_in_states, issue_keys, server, index, all_ticket_data,
          warnings, session_state, memory, start_at, all_histories, response,
          issue>>

\* Python's None, where a timestamp string may stand
None == [none |-> TRUE]

\* no objects allocated, no request under way
NoObjects == [objects |-> <<>>, input |-> <<>>, output |-> <<>>]
NoResponse == [status_code |-> 0, data |-> [values |-> <<>>]]
NoFetch ==
    /\ memory = NoObjects
    /\ start_at = 0
    /\ all_histories = <<>>
    /\ response = NoResponse
    /\ issue = None

----------------------------------------------------------------------------
(* Bounds of the model                                                     *)

MaxLen == 2        \* longest transition list / changelog / batch drawn
MaxWall == 1       \* largest wall-clock hour written in a timestamp
MaxKeys == 2       \* largest batch of issue keys
MaxPage == 2       \* largest page of histories in one answer
MaxTotal == 3      \* largest "total" an answer reports
MaxHistories == 3  \* most histories accumulated by one call

----------------------------------------------------------------------------
(* Characters and text                                                     *)

UpperCase == <<"A","B","C","D","E","F","G","H","I","J","K","L","M",
               "N","O","P","Q","R","S","T","U","V","W","X","Y","Z">>
LowerCase == <<"a","b","c","d","e","f","g","h","i","j","k","l","m",
               "n","o","p","q","r","s","t","u","v","w","x","y","z">>
Digits == <<"0","1","2","3","4","5","6","7","8","9">>
\* the ASCII characters str.strip() removes (code points 9-13, 28-31, 32);
\* characters are ASCII throughout
Whitespace == {"\t", "\n", "", "\f", "\r", "", "", "", "", " "}

\* the ASCII characters by code point, from 1 to 127 (the grave accent, 96,
\* cannot be written in a string and goes by its name)
Ascii == << "", "", "", "", "", "", "", "",
         "\t", "\n", "", "\f", "\r", "", "", "",
         "", "", "", "", "", "", "", "",
         "", "", "", "", "", "", "", " ",
         "!", "\"", "#", "$", "%", "&", "'", "(",
         ")", "*", "+", ",", "-", ".", "/", "0",
         "1", "2", "3", "4", "5", "6", "7", "8",
         "9", ":", ";", "<", "=", ">", "?", "@",
         "A", "B", "C", "D", "E", "F", "G", "H",
         "I", "J", "K", "L", "M", "N", "O", "P",
         "Q", "R", "S", "T", "U", "V", "W", "X",
         "Y", "Z", "[", "\\", "]", "^", "_", "grave",
         "a", "b", "c", "d", "e", "f", "g", "h",
         "i", "j", "k", "l", "m", "n", "o", "p",
         "q", "r", "s", "t", "u", "v", "w", "x",
         "y", "z", "{", "|", "}", "~", "" >>

\* 0-based position of x in seq, or -1 (list.index raising ValueError)
IndexOf(seq, x) ==
    IF \E i \in 1..Len(seq) : seq[i] = x
    THEN (CHOOSE i \in 1..Len(seq) :
              seq[i] = x /\ \A j \in 1..(i - 1) : seq[j] # x) - 1
    ELSE -1

\* str.lower()
LowerChar(c) ==
    IF IndexOf(UpperCase, c) >= 0 THEN LowerCase[IndexOf(UpperCase, c) + 1] ELSE c
str_lower(s) == [i \in 1..Len(s) |-> LowerChar(s[i])]

\* str.strip()
RECURSIVE LStrip(_)
LStrip(s) == IF s # <<>> /\ Head(s) \in Whitespace THEN LStrip(Tail(s)) ELSE s
RECURSIVE RStrip(_)
RStrip(s) ==
    IF s # <<>> /\ s[Len(s)] \in Whitespace
    THEN RStrip(SubSeq(s, 1, Len(s) - 1)) ELSE s
str_strip(s) == RStrip(LStrip(s))

----------------------------------------------------------------------------
(* Workflow model (utils.py)                                               *)

WORKFLOW_ORDER ==
    << <<"t","o"," ","d","o">>,
       <<"i","n"," ","p","r","o","g","r","e","s","s">>,
       <<"i","n"," ","r","e","v","i","e","w">>,
       <<"d","o","n","e">> >>

BLOCKED_STATES == { <<"b","l","o","c","k","e","d">> }

_workflow_index(status) ==
    LET normalized == str_lower(str_strip(status))
    IN  IF normalized \in BLOCKED_STATES
        THEN -1
        ELSE IndexOf(WORKFLOW_ORDER, normalized)

\* Faulty variant: a move out of the first stage counts as well.
IsBounceBackFromAny(from_index, to_index) ==
    from_index >= 0 /\ to_index >= 0 /\ to_index <= from_index

\* Faulty variant: the test forgets that -1 means "no position".
IsBounceBackNoGuard(from_index, to_index) ==
    from_index > 0 /\ to_index < from_index

\* the condition of line 83
IsBounceBack(from_index, to_index) ==
    from_index > 0 /\ to_index >= 0 /\ to_index < from_index

\* Faulty variant: the blocked test compares the label without trimming it.
IsBlockedEntryNoStrip(to_status) == str_lower(to_status) \in BLOCKED_STATES

\* the condition of line 86
IsBlockedEntry(to_status) == str_lower(str_strip(to_status)) \in BLOCKED_STATES

\* dict(transition) with is_blocked = True added (lines 87-88)
BlockedEvent(transition) ==
    [timestamp |-> transition.timestamp,
     from_status |-> transition.from_status,
     to_status |-> transition.to_status,
     author |-> transition.author,
     is_blocked |-> TRUE]

\* Faulty variant: an event equal to one already collected is dropped.
AppendUnlessPresent(list, item) ==
    IF \E j \in 1..Len(list) : list[j] = item THEN list ELSE Append(list, item)

\* bounce_backs.append(...) (lines 84 and 89)
list_append(list, item) == Append(list, item)

\* one pass of the loop body of detect_bounce_backs (lines 80-89)
DetectBody(transition, acc) ==
    LET from_index == _workflow_index(transition.from_status)
        to_index == _workflow_index(transition.to_status)
        acc1 == IF IsBounceBack(from_index, to_index)
                THEN list_append(acc, transition)
                ELSE acc
    IN  IF IsBlockedEntry(transition.to_status)
        THEN list_append(acc1, BlockedEvent(transition))
        ELSE acc1

RECURSIVE DetectLoop(_, _, _)
DetectLoop(list, i, acc) ==
    IF i > Len(list) THEN acc
    ELSE DetectLoop(list, i + 1, DetectBody(list[i], acc))

detect_bounce_backs(list) == DetectLoop(list, 1, <<>>)

----------------------------------------------------------------------------
(* Timestamp strings and parse_timestamp (utils.py)                        *)

EmptyStr == [wall |-> -1, frac |-> <<>>, tz |-> <<>>]

\* bool(created_date): None and "" are falsy
Truthy(s) == s # None /\ s # EmptyStr

DigitValue(c) == IndexOf(Digits, c)
IsDigit(c) == DigitValue(c) >= 0

\* str.replace("Z", "+00:00"), on the characters after the seconds (the
\* text before them, "2024-01-15Thh:00:00", holds no "Z")
RECURSIVE ReplaceZ(_)
ReplaceZ(s) ==
    IF s = <<>> THEN <<>>
    ELSE (IF Head(s) = "Z" THEN <<"+","0","0",":","0","0">> ELSE <<Head(s)>>)
         \o ReplaceZ(Tail(s))

\* a sign and four digits end at position last
CompactOffsetEndsAt(s, last) ==
    /\ last >= 5
    /\ s[last - 4] \in {"+", "-"}
    /\ \A k \in 0..3 : IsDigit(s[last - k])

\* re.search(r"[+-]\d{4}$", ...): "$" matches at the end of the text and
\* just before a newline that ends it.  The seconds end in "0" after a ":",
\* so a match lies in the characters after the seconds.
EndsWithCompactOffset(s) ==
    \/ CompactOffsetEndsAt(s, Len(s))
    \/ (Len(s) >= 1 /\ s[Len(s)] = "\n" /\ CompactOffsetEndsAt(s, Len(s) - 1))

\* timestamp_str[:-2] + ":" + timestamp_str[-2:]
InsertColon(s) ==
    SubSeq(s, 1, Len(s) - 2) \o <<":">> \o SubSeq(s, Len(s) - 1, Len(s))

\* lines 52-53
ColonInserted(replaced) ==
    IF EndsWithCompactOffset(replaced) THEN InsertColon(replaced) ELSE replaced

\* lines 49-53: the text handed to datetime.fromisoformat
NormalizeOffset(rest) == ColonInserted(ReplaceZ(rest))

\* datetime.fromisoformat as CPython 3.11 implements it (parse_isoformat_time
\* and parse_hh_mm_ss_ff of _datetimemodule.c), on the time of day and what
\* follows it.  Positions are 1-based; reading past the end gives NUL.
NUL == ""
CharAt(s, p) == IF p >= 1 /\ p <= Len(s) THEN s[p] ELSE NUL

\* parse_digits: exactly n digits from position p
RECURSIVE parse_digits(_, _, _, _)
parse_digits(s, p, n, acc) ==
    IF n = 0 THEN [ok |-> TRUE, p |-> p, val |-> acc]
    ELSE IF IsDigit(CharAt(s, p))
    THEN parse_digits(s, p + 1, n - 1, acc * 10 + DigitValue(CharAt(s, p)))
    ELSE [ok |-> FALSE, p |-> p, val |-> 0]

RECURSIVE SkipDigits(_, _)
SkipDigits(s, p) == IF IsDigit(CharAt(s, p)) THEN SkipDigits(s, p + 1) ELSE p

Component(vals, k) == IF k <= Len(vals) THEN vals[k] ELSE 0

Parsed(rv, vals, microsecond) ==
    [rv |-> rv, hour |-> Component(vals, 1), minute |-> Component(vals, 2),
     second |-> Component(vals, 3), microsecond |-> microsecond]

\* the fractional part once its digits are read; the result is 1 when text
\* is left over
FractionRead(s, vals, to_parse, digits) ==
    IF ~digits.ok THEN Parsed(-3, vals, 0)
    ELSE Parsed(IF CharAt(s, SkipDigits(s, digits.p)) # NUL THEN 1 ELSE 0,
                vals,
                IF to_parse = 0 THEN 0
                ELSE digits.val * <<100000, 10000, 1000, 100, 10, 1>>[to_parse])

\* up to six digits are read, further digits skipped
FractionDigits(s, p, vals, to_parse) ==
    FractionRead(s, vals, to_parse, parse_digits(s, p, to_parse, 0))

ParseFraction(s, p, p_end, vals) ==
    FractionDigits(s, p, vals, IF p_end - p >= 6 THEN 6 ELSE p_end - p)

\* the loop over [HH[:?MM[:?SS]]], at component i (0, 1, 2): two digits, then
\* the character c that follows them; q is the position after c
RECURSIVE ParseComponents(_, _, _, _, _, _)
AfterCharacter(s, p_end, i, separated, vals, c, q) ==
    IF q >= p_end THEN Parsed(IF c # NUL THEN 1 ELSE 0, vals, 0)
    ELSE IF (separated /\ c = ":") \/ (~separated /\ c \notin {".", ","})
    THEN (IF i < 2
          THEN ParseComponents(s, IF separated THEN q ELSE q - 1, p_end, i + 1,
                               separated, vals)
          ELSE ParseFraction(s, IF separated THEN q ELSE q - 1, p_end, vals))
    ELSE IF c \in {".", ","} THEN ParseFraction(s, q, p_end, vals)
    ELSE Parsed(-4, vals, 0)

AfterDigits(s, p_end, i, has_separator, vals, digits) ==
    IF ~digits.ok THEN Parsed(-3, vals, 0)
    ELSE AfterCharacter(s, p_end, i,
                        IF i = 0 THEN CharAt(s, digits.p) = ":" ELSE has_separator,
                        Append(vals, digits.val), CharAt(s, digits.p), digits.p + 1)

ParseComponents(s, p, p_end, i, has_separator, vals) ==
    AfterDigits(s, p_end, i, has_separator, vals, parse_digits(s, p, 2, 0))

parse_hh_mm_ss_ff(s, p, p_end) == ParseComponents(s, p, p_end, 0, TRUE, <<>>)

\* the first "Z", "+" or "-", or the position after the text
TzinfoPos(s) ==
    IF \E p \in 1..Len(s) : s[p] \in {"Z", "+", "-"}
    THEN CHOOSE p \in 1..Len(s) :
             s[p] \in {"Z", "+", "-"} /\ \A k \in 1..(p - 1) : s[k] \notin {"Z", "+", "-"}
    ELSE Len(s) + 1

\* a parsed datetime: wall is the hour of 2024-01-15 the text shows,
\* microsecond its fraction of a second; off (seconds) and offmicro
\* (microseconds, 0..999999) give its UTC offset when it is aware
ParseFailure ==
    [ok |-> FALSE, aware |-> FALSE, wall |-> 0, microsecond |-> 0, off |-> 0, offmicro |-> 0]
Naive(wall, microsecond) ==
    [ok |-> TRUE, aware |-> FALSE, wall |-> wall, microsecond |-> microsecond,
     off |-> 0, offmicro |-> 0]
Aware(wall, microsecond, off, offmicro) ==
    [ok |-> TRUE, aware |-> TRUE, wall |-> wall, microsecond |-> microsecond,
     off |-> off, offmicro |-> offmicro]

\* tzinfo_from_isoformat_results: a zero offset in whole seconds is
\* timezone.utc whatever the microseconds; timezone() raises ValueError unless
\* the offset is strictly less than a day
WithOffset(wall, microsecond, negative, seconds, micro) ==
    IF seconds = 0 THEN Aware(wall, microsecond, 0, 0)
    ELSE IF seconds >= 86400 THEN ParseFailure
    ELSE IF ~negative THEN Aware(wall, microsecond, seconds, micro)
    ELSE IF micro = 0 THEN Aware(wall, microsecond, -seconds, 0)
    ELSE Aware(wall, microsecond, -seconds - 1, 1000000 - micro)

TimeOfDay == <<"0","0",":","0","0",":","0","0">>

\* the offset that follows the sign at tzinfo_pos
OffsetParsed(wall, microsecond, negative, tz) ==
    IF tz.rv # 0 THEN ParseFailure
    ELSE WithOffset(wall, microsecond, negative,
                    tz.hour * 3600 + tz.minute * 60 + tz.second, tz.microsecond)

\* parse_isoformat_time once the time of day is parsed
TimeParsed(wall, s, tzinfo_pos, time) ==
    IF wall < 0 \/ time.rv < 0 THEN ParseFailure
    ELSE IF tzinfo_pos = Len(s) + 1
    THEN (IF time.rv = 1 THEN ParseFailure ELSE Naive(wall, time.microsecond))
    ELSE IF s[tzinfo_pos] = "Z"
    THEN (IF tzinfo_pos # Len(s) THEN ParseFailure
          ELSE Aware(wall, time.microsecond, 0, 0))
    ELSE OffsetParsed(wall, time.microsecond, s[tzinfo_pos] = "-",
                      parse_hh_mm_ss_ff(s, tzinfo_pos + 1, Len(s) + 1))

parse_isoformat_time(wall, s, tzinfo_pos) ==
    TimeParsed(wall, s, tzinfo_pos, parse_hh_mm_ss_ff(s, 1, tzinfo_pos))

\* datetime.fromisoformat of "2024-01-15Thh:00:00" + rest, hh = wall: a
\* ValueError (ok = FALSE), a naive datetime or an aware one
fromisoformat(wall, rest) ==
    parse_isoformat_time(wall, TimeOfDay \o rest, TzinfoPos(TimeOfDay \o rest))

parse_timestamp(timestamp_str) ==
    fromisoformat(timestamp_str.wall,
                  NormalizeOffset(timestamp_str.frac \o timestamp_str.tz))

\* seconds and microseconds (0..999999) since 2024-01-15T00:00 UTC of an
\* aware datetime, since 2024-01-15T00:00 on the wall clock of a naive one
Normalized(sec, usec) ==
    IF usec < 0 THEN [sec |-> sec - 1, usec |-> usec + 1000000]
    ELSE IF usec >= 1000000 THEN [sec |-> sec + 1, usec |-> usec - 1000000]
    ELSE [sec |-> sec, usec |-> usec]
Instant(dt) == Normalized(dt.wall * 3600 - dt.off, dt.microsecond - dt.offmicro)

InstantLess(x, y) == x.sec < y.sec \/ (x.sec = y.sec /\ x.usec < y.usec)

\* a - b and a < b raise TypeError when one is naive and the other aware
Comparable(a, b) == a.aware = b.aware
Before(a, b) == InstantLess(Instant(a), Instant(b))

\* the timedelta b - a
Difference(x, y) == Normalized(y.sec - x.sec, y.usec - x.usec)
Elapsed(a, b) == Difference(Instant(a), Instant(b))

TwoDigits(n) == <<Digits[(n \div 10) + 1], Digits[(n % 10) + 1]>>
SixDigits(n) ==
    TwoDigits(n \div 10000) \o TwoDigits((n \div 100) % 100) \o TwoDigits(n % 100)

\* the offset as isoformat() writes it: +hh:mm, then :ss and .ffffff when
\* they are not zero
FormatOffset(off, offmicro) ==
    LET negative == off < 0
        sec == IF ~negative THEN off ELSE IF offmicro = 0 THEN -off ELSE -off - 1
        usec == IF ~negative \/ offmicro = 0 THEN offmicro ELSE 1000000 - offmicro
    IN  <<(IF negative THEN "-" ELSE "+")>>
        \o TwoDigits(sec \div 3600) \o <<":">> \o TwoDigits((sec % 3600) \div 60)
        \o (IF sec % 60 # 0 \/ usec # 0 THEN <<":">> \o TwoDigits(sec % 60) ELSE <<>>)
        \o (IF usec # 0 THEN <<".">> \o SixDigits(usec) ELSE <<>>)

\* datetime.isoformat(): the fraction is written (six digits) unless the
\* microseconds are zero
isoformat(dt) ==
    [wall |-> dt.wall,
     frac |-> IF dt.microsecond = 0 THEN <<>> ELSE <<".">> \o SixDigits(dt.microsecond),
     tz |-> IF dt.aware THEN FormatOffset(dt.off, dt.offmicro) ELSE <<>>]

\* datetime.now(timezone.utc) when the clock shows hour h
UtcNow(h) == Aware(h, 0, 0, 0)

----------------------------------------------------------------------------
(* compute_time_in_states (utils.py)                                       *)

\* The outcome of a call: a returned list, or an exception that leaves the
\* function.  now_reads counts the calls of datetime.now made on the way.
Return(periods, reads) ==
    [kind |-> "return", value |-> periods, exc |-> "", now_reads |-> reads]
Raise(exc, reads) ==
    [kind |-> "raise", value |-> <<>>, exc |-> exc, now_reads |-> reads]

\* Faulty variant: a failure ends the loop and what was collected is returned.
ReturnCollected(exc, periods, reads) == Return(periods, reads)

\* no try/except in lines 102-137: the exception leaves the function
Propagate(exc, periods, reads) == Raise(exc, reads)

\* 2^k mod 25
RECURSIVE Pow2Mod25(_)
Pow2Mod25(k) == IF k = 0 THEN 1 ELSE (2 * Pow2Mod25(k - 1)) % 25

\* the binary exponent e of n/25: 25 * 2^e <= n < 25 * 2^(e+1)
RECURSIVE ExponentOver25(_, _, _)
ExponentOver25(n, scaled, e) ==
    IF n >= 25
    THEN (IF 2 * scaled <= n THEN ExponentOver25(n, 2 * scaled, e + 1) ELSE e)
    ELSE (IF scaled < 25 THEN ExponentOver25(n, 2 * scaled, e - 1) ELSE e)

\* round(n / 200, 2) for odd n > 0 lies between two hundredths.  The double
\* that holds n/200 is n * 2^(52-e) / 25 rounded to an integer, so it is
\* above n/200 when the remainder is 13 or more and below it otherwise; when
\* 25 divides n the double is exact and round() goes to the even hundredth.
HalfRoundsUp(n) ==
    IF n % 25 = 0 THEN ((n - 1) \div 2) % 2 = 1
    ELSE LET e == IF n >= 25 THEN ExponentOver25(n, 25, 0) ELSE ExponentOver25(n, n, 0)
         IN  ((n % 25) * Pow2Mod25((52 - e) % 20)) % 25 >= 13

\* round(seconds / 3600, 2) of a duration that is not negative, in
\* hundredths of an hour (36 s)
RoundedHundredths(sec, usec) ==
    LET q == sec \div 36
        r == sec % 36
    IN  IF r < 18 THEN q
        ELSE IF r > 18 \/ usec > 0 THEN q + 1
        ELSE IF HalfRoundsUp(2 * q + 1) THEN q + 1 ELSE q

\* round(seconds / 3600, 2) of a duration d (sec, usec) of either sign, in
\* hundredths of an hour: 350 stands for 3.5
HundredthsOfHour(d) ==
    IF d.sec >= 0 THEN RoundedHundredths(d.sec, d.usec)
    ELSE IF d.usec = 0 THEN -RoundedHundredths(-d.sec, 0)
    ELSE -RoundedHundredths(-d.sec - 1, 1000000 - d.usec)

\* round((exited - entered).total_seconds() / 3600, 2) (lines 112 and 129)
DurationHours(a, b) == HundredthsOfHour(Elapsed(a, b))

Period(status, entered, exited) ==
    [status |-> status,
     entered |-> isoformat(entered),
     exited |-> isoformat(exited),
     duration_hours |-> DurationHours(entered, exited)]

\* Faulty variant: a period of zero length is not recorded.
AppendUnlessEmpty(periods, period) ==
    IF period.duration_hours = 0 THEN periods ELSE Append(periods, period)

\* periods.append(...) (lines 113 and 130)
periods_append(periods, period) == Append(periods, period)

\* Faulty variant: a ticket created at the very instant of its first transition
\* also gets a leading period.
LeadingPeriodDueOrEqual(creation_time, first_transition_time) ==
    ~Before(first_transition_time, creation_time)

\* the condition of line 111
LeadingPeriodDue(creation_time, first_transition_time) ==
    Before(creation_time, first_transition_time)

\* Faulty variant: every period is closed with the current time.
ExitedAlwaysNow(list, i, clock_hour, reads) ==
    [dt |-> UtcNow(clock_hour + reads), reads |-> reads + 1]

\* lines 124-127: the next transition's timestamp, or datetime.now(timezone.utc);
\* each call of now() is counted and returns the clock as it then stands
ExitedOf(list, i, clock_hour, reads) ==
    IF i + 1 <= Len(list)
    THEN [dt |-> parse_timestamp(list[i + 1].timestamp), reads |-> reads]
    ELSE [dt |-> UtcNow(clock_hour + reads), reads |-> reads + 1]

\* the loop of lines 121-135, from transition i (1-based) on
RECURSIVE TimeLoop(_, _, _, _, _)

\* lines 129-135, with entered and exited (ex.dt) at hand
WithExited(list, i, periods, clock_hour, entered, ex) ==
    IF ~ex.dt.ok THEN Propagate("ValueError", periods, ex.reads)
    ELSE IF ~Comparable(ex.dt, entered)
    THEN Propagate("TypeError", periods, ex.reads)
    ELSE TimeLoop(list, i + 1,
                  periods_append(periods, Period(list[i].to_status, entered, ex.dt)),
                  clock_hour, ex.reads)

\* lines 124-127, with entered at hand
WithEntered(list, i, periods, clock_hour, reads, entered) ==
    IF ~entered.ok THEN Propagate("ValueError", periods, reads)
    ELSE WithExited(list, i, periods, clock_hour, entered,
                    ExitedOf(list, i, clock_hour, reads))

TimeLoop(list, i, periods, clock_hour, reads) ==
    IF i > Len(list) THEN Return(periods, reads)
    ELSE WithEntered(list, i, periods, clock_hour, reads,
                     parse_timestamp(list[i].timestamp))

\* lines 111-137, with both instants at hand
WithCreationTime(list, clock_hour, creation_time, first_transition_time) ==
    IF ~creation_time.ok THEN Propagate("ValueError", <<>>, 0)
    ELSE IF ~Comparable(creation_time, first_transition_time)
    THEN Propagate("TypeError", <<>>, 0)
    ELSE TimeLoop(list, 1,
                  IF LeadingPeriodDue(creation_time, first_transition_time)
                  THEN periods_append(<<>>,
                           Period(list[1].from_status, creation_time,
                                  first_transition_time))
                  ELSE <<>>,
                  clock_hour, 0)

\* lines 106-109, with the first transition's instant at hand
WithFirstTransitionTime(list, created, clock_hour, first_transition_time) ==
    IF ~first_transition_time.ok THEN Propagate("ValueError", <<>>, 0)
    ELSE WithCreationTime(list, clock_hour,
                          IF Truthy(created) THEN parse_timestamp(created)
                          ELSE first_transition_time,
                          first_transition_time)

compute_time_in_states(list, created, clock_hour) ==
    IF list = <<>> THEN Return(<<>>, 0)
    ELSE WithFirstTransitionTime(list, created, clock_hour,
                                 parse_timestamp(list[1].timestamp))

----------------------------------------------------------------------------
(* extract_status_transitions (jira_client.py)                             *)

\* ord(c); 128 stands for a character outside the table
CodePoint(c) ==
    IF \E i \in 1..Len(Ascii) : Ascii[i] = c
    THEN CHOOSE i \in 1..Len(Ascii) : Ascii[i] = c
    ELSE 128

RECURSIVE TextLessEq(_, _)
TextLessEq(a, b) ==
    IF a = <<>> THEN TRUE
    ELSE IF b = <<>> THEN FALSE
    ELSE IF Head(a) # Head(b) THEN CodePoint(Head(a)) < CodePoint(Head(b))
    ELSE TextLessEq(Tail(a), Tail(b))

\* a <= b as Python compares the two timestamp strings (by code point)
StrLessEq(a, b) ==
    IF a.wall # b.wall THEN a.wall < b.wall
    ELSE TextLessEq(a.frac \o a.tz, b.frac \o b.tz)

\* t placed after every entry whose key is <= its own (list.sort is stable)
InsertStable(sorted, t) ==
    LET k == Cardinality({j \in 1..Len(sorted) :
                              StrLessEq(sorted[j].timestamp, t.timestamp)})
    IN  SubSeq(sorted, 1, k) \o <<t>> \o SubSeq(sorted, k + 1, Len(sorted))

\* transitions.sort(key=lambda t: t["timestamp"]) (line 98)
RECURSIVE SortByTimestamp(_)
SortByTimestamp(list) ==
    IF list = <<>> THEN <<>>
    ELSE InsertStable(SortByTimestamp(SubSeq(list, 1, Len(list) - 1)), list[Len(list)])

\* a history without an author
NoAuthor == "<no author>"

\* (history.get("author") or {}).get("displayName", "Unknown") (line 87)
DisplayName(author) == IF author = NoAuthor THEN "Unknown" ELSE author

\* lines 89-96: the status items of one history, in order
RECURSIVE StatusItems(_, _)
StatusItems(history, k) ==
    IF k > Len(history.items) THEN <<>>
    ELSE (IF history.items[k].field = "status"
          THEN << [timestamp |-> history.created,
                   from_status |-> history.items[k].fromString,
                   to_status |-> history.items[k].toString,
                   author |-> DisplayName(history.author)] >>
          ELSE <<>>)
         \o StatusItems(history, k + 1)

\* lines 85-96: every history in changelog order
RECURSIVE CollectTransitions(_, _)
CollectTransitions(log, h) ==
    IF h > Len(log) THEN <<>>
    ELSE StatusItems(log[h], 1) \o CollectTransitions(log, h + 1)

extract_status_transitions(log) == SortByTimestamp(CollectTransitions(log, 1))

----------------------------------------------------------------------------
(* Inputs drawn by the scenarios                                           *)

ToDo == <<"T","o"," ","D","o">>
InProgress == <<"i","n"," ","p","r","o","g","r","e","s","s"," ">>
InReview == <<"I","N"," ","R","E","V","I","E","W">>
Blocked == <<"B","l","o","c","k","e","d">>
BlockedPadded == <<" ","B","L","O","C","K","E","D","\t">>
Unblocked == <<"U","n","b","l","o","c","k","e","d">>
QA == <<"Q","A">>

Labels == {ToDo, InProgress, InReview, Blocked, BlockedPadded, Unblocked, QA}

Millis == <<".","0","0","0">>
Zulu == <<"Z">>
PlusTwoCompact == <<"+","0","2","0","0">>
MinusOneColon == <<"-","0","1",":","0","0">>
Garbled == <<"?">>

Stamp(wall, tz) == [wall |-> wall, frac |-> Millis, tz |-> tz]

\* well-formed Jira timestamps in two offsets
GoodStamps == {Stamp(w, tz) : w \in 0..MaxWall, tz \in {Zulu, PlusTwoCompact}}

\* half a second past the hour, with the offset written as hours only
HalfSecondShort == [wall |-> 0, frac |-> <<".","5">>, tz |-> <<"+","0","2">>]

\* the same plus one west of UTC, one with a short fraction and offset, an
\* offset-less one, one that cannot be parsed, and ""
AnyStamps ==
    GoodStamps \cup {Stamp(0, MinusOneColon), HalfSecondShort, Stamp(0, <<>>),
                     Stamp(MaxWall, Garbled), EmptyStr}

ListsOf(S, n) == UNION {[1..k -> S] : k \in 0..n}

DetectInputs ==
    [timestamp : {Stamp(0, Zulu)}, from_status : Labels, to_status : Labels,
     author : {"Unknown"}]

TimeInputs ==
    {[timestamp |-> ts, from_status |-> st[1], to_status |-> st[2], author |-> "Unknown"] :
        ts \in AnyStamps, st \in {<<ToDo, InProgress>>, <<InReview, Blocked>>}}

StatusItem(from, to) == [field |-> "status", fromString |-> from, toString |-> to]
OtherItem == [field |-> "assignee", fromString |-> QA, toString |-> QA]

ItemLists ==
    { <<>>, <<StatusItem(ToDo, InProgress)>>,
      <<OtherItem, StatusItem(InReview, InProgress)>>,
      <<StatusItem(InProgress, InReview), StatusItem(InReview, Blocked)>> }

Histories == [created : GoodStamps, author : {NoAuthor}, items : ItemLists]

History(ts, items) == [created |-> ts, author |-> "Ann", items |-> items]

----------------------------------------------------------------------------
(* Scenario: detect_bounce_backs on a drawn transition list                *)

Idle ==
    /\ NoFetch
    /\ changelog = <<>>
    /\ created_date = None
    /\ clock = MaxWall + 1
    /\ bounce_backs = <<>>
    /\ time_in_states = Return(<<>>, 0)
    /\ issue_keys = <<>>
    /\ server = <<>>
    /\ index = 0
    /\ all_ticket_data = <<>>
    /\ warnings = <<>>
    /\ session_state = <<>>

InitDetect ==
    /\ pc = "ready"
    /\ transitions \in ListsOf(DetectInputs, MaxLen)
    /\ Idle

Detect ==
    /\ pc = "ready"
    /\ bounce_backs' = detect_bounce_backs(transitions)
    /\ pc' = "detected"
    /\ UNCHANGED <<memory, start_at, all_histories, response, issue>>
    /\ UNCHANGED <<changelog, transitions, created_date, clock, time_in_states,
                   issue_keys, server, index, all_ticket_data, warnings,
                   session_state>>

NextDetect == Detect

SpecDetect == InitDetect /\ [][NextDetect]_vars

----------------------------------------------------------------------------
(* Properties of detect_bounce_backs                                       *)

\* What each drawn label is, read off the workflow by hand: a forward
\* position, -1 for a blocked stage, -2 for a label the workflow does not know.
ExpectedClass(label) ==
    CASE label = ToDo -> 0
      [] label = InProgress -> 1
      [] label = InReview -> 2
      [] label = Blocked -> -1
      [] label = BlockedPadded -> -1
      [] OTHER -> -2

\* the four fields an event shares with the transition it was made from
Core(event) ==
    [timestamp |-> event.timestamp, from_status |-> event.from_status,
     to_status |-> event.to_status, author |-> event.author]

IsBlockedEventRec(event) == "is_blocked" \in DOMAIN event /\ event.is_blocked = TRUE
IsPlainEventRec(event) == ~("is_blocked" \in DOMAIN event)

Occurrences(list, t) == Cardinality({i \in 1..Len(list) : list[i] = t})
EventsOf(events, t) == Cardinality({j \in 1..Len(events) : Core(events[j]) = t})
PlainEventsOf(events, t) ==
    Cardinality({j \in 1..Len(events) : events[j] = t /\ IsPlainEventRec(events[j])})

\* C2: a transition is emitted as a plain (non-blocked) bounce-back exactly
\* when its from_status is at a forward position > 0 and its to_status is at
\* a forward position strictly below it; never from position 0, never when
\* either label is blocked or unknown.
C2_PlainEventIffBackwardMove ==
    pc = "detected" =>
        \A i \in 1..Len(transitions) :
            (\E j \in 1..Len(bounce_backs) : bounce_backs[j] = transitions[i])
            <=> /\ ExpectedClass(transitions[i].from_status) > 0
                /\ ExpectedClass(transitions[i].to_status) >= 0
                /\ ExpectedClass(transitions[i].to_status)
                       < ExpectedClass(transitions[i].from_status)

C2_Witness ==
    /\ pc = "detected"
    /\ Len(transitions) = 2
    /\ transitions[1].from_status = InReview /\ transitions[1].to_status = InProgress
    /\ transitions[2].from_status = ToDo /\ transitions[2].to_status = QA
    /\ bounce_backs = <<transitions[1]>>

\* C3: a transition whose to_status is a blocked stage name (whatever its case
\* and surrounding whitespace) yields exactly one event, and that event
\* carries is_blocked = TRUE, whatever its from_status is.
C3_BlockedEntryAlwaysReported ==
    pc = "detected" =>
        \A i \in 1..Len(transitions) :
            ExpectedClass(transitions[i].to_status) = -1 =>
                /\ EventsOf(bounce_backs, transitions[i])
                       = Occurrences(transitions, transitions[i])
                /\ \A j \in 1..Len(bounce_backs) :
                       Core(bounce_backs[j]) = transitions[i]
                           => IsBlockedEventRec(bounce_backs[j])

C3_Witness ==
    /\ pc = "detected"
    /\ Len(transitions) = 2
    /\ transitions[1].from_status = ToDo /\ transitions[1].to_status = BlockedPadded
    /\ transitions[2].from_status = InReview /\ transitions[2].to_status = Blocked
    /\ bounce_backs = <<BlockedEvent(transitions[1]), BlockedEvent(transitions[2])>>

\* C4 as stated, its case read as: the transition leaves a stage past the
\* first one (a stage one can move backward from) and lands in a blocked
\* stage.  Then it would be emitted twice, once plain and once blocked.
C4_TwoEventsWhenBackwardIntoBlocked ==
    pc = "detected" =>
        \A i \in 1..Len(transitions) :
            /\ ExpectedClass(transitions[i].from_status) > 0
            /\ ExpectedClass(transitions[i].to_status) = -1
            => /\ \E j \in 1..Len(bounce_backs) : bounce_backs[j] = transitions[i]
               /\ \E j \in 1..Len(bounce_backs) :
                      bounce_backs[j] = BlockedEvent(transitions[i])

\* C4 amended: no transition is emitted twice.  A blocked label has no forward
\* position, so a transition into a blocked stage is never emitted as a plain
\* bounce-back, and every transition accounts for at most one event.
C4_AtMostOneEventPerTransition ==
    pc = "detected" =>
        \A i \in 1..Len(transitions) :
            /\ EventsOf(bounce_backs, transitions[i])
                   <= Occurrences(transitions, transitions[i])
            /\ ExpectedClass(transitions[i].to_status) = -1
                   => PlainEventsOf(bounce_backs, transitions[i]) = 0

C4_Witness ==
    /\ pc = "detected"
    /\ Len(transitions) = 1
    /\ transitions[1].from_status = InReview /\ transitions[1].to_status = Blocked
    /\ bounce_backs = <<BlockedEvent(transitions[1])>>

RECURSIVE EventsInInputOrder(_, _)
EventsInInputOrder(list, i) ==
    IF i > Len(list) THEN <<>>
    ELSE detect_bounce_backs(<<list[i]>>) \o EventsInInputOrder(list, i + 1)

\* C9: the output is the events of the first transition, then those of the
\* second, and so on: nothing is reordered, and an event is not dropped for
\* being equal to the event of another transition.
C9_OutputFollowsInputOrder ==
    pc = "detected" => bounce_backs = EventsInInputOrder(transitions, 1)

C9_Witness ==
    /\ pc = "detected"
    /\ Len(transitions) = 2
    /\ transitions[1] # transitions[2]
    /\ Len(bounce_backs) = 2
    /\ Core(bounce_backs[1]) = transitions[1]
    /\ Core(bounce_backs[2]) = transitions[2]

----------------------------------------------------------------------------
(* Scenario: compute_time_in_states on a transition list as                *)
(* extract_status_transitions delivers it (sorted by timestamp text)       *)

IdleBatch ==
    /\ NoFetch
    /\ issue_keys = <<>>
    /\ server = <<>>
    /\ index = 0
    /\ all_ticket_data = <<>>
    /\ warnings = <<>>
    /\ session_state = <<>>

InitTime ==
    /\ pc = "ready"
    /\ changelog = <<>>
    /\ transitions \in {SortByTimestamp(l) : l \in ListsOf(TimeInputs, MaxLen)}
    /\ created_date \in {None} \cup AnyStamps
    /\ clock \in {MaxWall + 1, MaxWall + 2}
    /\ bounce_backs = <<>>
    /\ time_in_states = Return(<<>>, 0)
    /\ IdleBatch

Compute ==
    /\ pc = "ready"
    /\ time_in_states' = compute_time_in_states(transitions, created_date, clock)
    /\ pc' = "computed"
    /\ UNCHANGED <<memory, start_at, all_histories, response, issue>>
    /\ UNCHANGED <<changelog, transitions, created_date, clock, bounce_backs,
                   issue_keys, server, index, all_ticket_data, warnings,
                   session_state>>

NextTime == Compute

SpecTime == InitTime /\ [][NextTime]_vars

----------------------------------------------------------------------------
(* Properties of compute_time_in_states                                    *)

\* the instant a timestamp string denotes (for strings that parse, with offset)
InstantOf(timestamp_str) == Instant(parse_timestamp(timestamp_str))

Parses(timestamp_str) == parse_timestamp(timestamp_str).ok

ChronologicallySorted(list) ==
    \A i, j \in 1..Len(list) :
        i < j => ~InstantLess(InstantOf(list[j].timestamp), InstantOf(list[i].timestamp))

Returned == pc = "computed" /\ time_in_states.kind = "return"

\* a creation instant is supplied and lies strictly before the first transition
CreatedEarlier ==
    /\ Truthy(created_date)
    /\ InstantLess(InstantOf(created_date), InstantOf(transitions[1].timestamp))

\* C1: for a non-empty, chronologically sorted list the returned periods tile
\* [origin, now]: each period ends where the next begins, the first begins
\* at the origin (the creation instant if strictly earlier than the first
\* transition, else the first transition), and the last ends at the one
\* reading of the clock the call made.
C1_PeriodsTileOriginToNow ==
    (Returned /\ transitions # <<>> /\ ChronologicallySorted(transitions)) =>
        LET periods == time_in_states.value
        IN  /\ periods # <<>>
            /\ \A i \in 1..(Len(periods) - 1) : periods[i].exited = periods[i + 1].entered
            /\ InstantOf(periods[1].entered)
                   = IF CreatedEarlier THEN InstantOf(created_date)
                     ELSE InstantOf(transitions[1].timestamp)
            /\ time_in_states.now_reads = 1
            /\ periods[Len(periods)].exited = isoformat(UtcNow(clock))

C1_Witness ==
    /\ Returned
    /\ Len(transitions) = 2
    /\ ChronologicallySorted(transitions)
    /\ InstantLess(InstantOf(transitions[1].timestamp), InstantOf(transitions[2].timestamp))
    /\ CreatedEarlier
    /\ Len(time_in_states.value) = 3

\* C5: for a non-empty list a leading period is emitted exactly when a
\* creation instant is supplied and strictly earlier than the first
\* transition; it then comes first, with the first transition's from_status,
\* from the creation instant to the first transition's timestamp.
C5_LeadingPeriodIffCreatedEarlier ==
    (Returned /\ transitions # <<>>) =>
        LET periods == time_in_states.value
        IN  IF CreatedEarlier
            THEN /\ Len(periods) = Len(transitions) + 1
                 /\ periods[1].status = transitions[1].from_status
                 /\ InstantOf(periods[1].entered) = InstantOf(created_date)
                 /\ InstantOf(periods[1].exited) = InstantOf(transitions[1].timestamp)
            ELSE /\ Len(periods) = Len(transitions)
                 /\ periods[1].status = transitions[1].to_status
                 /\ InstantOf(periods[1].entered) = InstantOf(transitions[1].timestamp)

C5_Witness ==
    /\ Returned
    /\ transitions # <<>>
    /\ CreatedEarlier
    /\ Len(time_in_states.value) = Len(transitions) + 1
    /\ time_in_states.value[1].status = transitions[1].from_status

\* C8: when the list is not empty and the creation instant or some
\* transition's timestamp cannot be parsed, the call ends with an exception
\* and returns nothing: no transition is skipped, no partial list comes back.
C8_MalformedTimestampFailsWholeCall ==
    (/\ pc = "computed"
     /\ transitions # <<>>
     /\ \/ Truthy(created_date) /\ ~Parses(created_date)
        \/ \E i \in 1..Len(transitions) : ~Parses(transitions[i].timestamp))
    => /\ time_in_states.kind = "raise"
       /\ time_in_states.value = <<>>

C8_Witness ==
    /\ pc = "computed"
    /\ Len(transitions) = 2
    /\ Parses(transitions[1].timestamp) /\ parse_timestamp(transitions[1].timestamp).aware
    /\ ~Parses(transitions[2].timestamp)
    /\ time_in_states.kind = "raise"
    /\ time_in_states.exc = "ValueError"

\* C10: after the optional leading period there is one period per transition,
\* in input order: status = to_status, entered = the transition's timestamp,
\* exited = the next transition's timestamp, or now for the last one; periods
\* of zero length are kept; an empty list gives an empty result whatever the
\* creation instant is.
C10_OnePeriodPerTransition ==
    /\ (pc = "computed" /\ transitions = <<>>)
           => (time_in_states.kind = "return" /\ time_in_states.value = <<>>)
    /\ (Returned /\ transitions # <<>>) =>
           LET periods == time_in_states.value
               lead == Len(periods) - Len(transitions)
           IN  /\ lead \in {0, 1}
               /\ \A i \in 1..Len(transitions) :
                      /\ periods[lead + i].status = transitions[i].to_status
                      /\ InstantOf(periods[lead + i].entered)
                             = InstantOf(transitions[i].timestamp)
                      /\ InstantOf(periods[lead + i].exited)
                             = IF i < Len(transitions)
                               THEN InstantOf(transitions[i + 1].timestamp)
                               ELSE Instant(UtcNow(clock))

C10_Witness ==
    /\ Returned
    /\ Len(transitions) = 2
    /\ transitions[1].timestamp = transitions[2].timestamp
    /\ transitions[1].to_status # transitions[2].to_status
    /\ Truthy(created_date)
    /\ Len(time_in_states.value) = 2
    /\ time_in_states.value[1].duration_hours = 0

----------------------------------------------------------------------------
(* Scenario: extract_status_transitions on a drawn changelog               *)

InitExtract ==
    /\ pc = "ready"
    /\ changelog \in ListsOf(Histories, MaxLen)
    /\ transitions = <<>>
    /\ created_date = None
    /\ clock = MaxWall + 1
    /\ bounce_backs = <<>>
    /\ time_in_states = Return(<<>>, 0)
    /\ IdleBatch

Extract ==
    /\ pc = "ready"
    /\ transitions' = extract_status_transitions(changelog)
    /\ pc' = "extracted"
    /\ UNCHANGED <<memory, start_at, all_histories, response, issue>>
    /\ UNCHANGED <<changelog, created_date, clock, bounce_backs, time_in_states,
                   issue_keys, server, index, all_ticket_data, warnings,
                   session_state>>

NextExtract == Extract

SpecExtract == InitExtract /\ [][NextExtract]_vars

\* the transitions of the changelog that share a timestamp text, in the order
\* the changelog lists them
RECURSIVE WithStamp(_, _)
WithStamp(list, ts) ==
    IF list = <<>> THEN <<>>
    ELSE (IF Head(list).timestamp = ts THEN <<Head(list)>> ELSE <<>>)
         \o WithStamp(Tail(list), ts)

\* C6: the list handed on by extract_status_transitions is in chronological
\* order (non-decreasing by the instant each timestamp denotes), and
\* transitions with equal timestamps keep their changelog order.
C6_ExtractedInChronologicalOrder ==
    pc = "extracted" =>
        /\ ChronologicallySorted(transitions)
        /\ \A ts \in GoodStamps :
               WithStamp(transitions, ts) = WithStamp(CollectTransitions(changelog, 1), ts)

\* what the code does ensure: order by the timestamp text, ties kept in order
ExtractedInTextOrder ==
    pc = "extracted" =>
        /\ \A i, j \in 1..Len(transitions) :
               i < j => StrLessEq(transitions[i].timestamp, transitions[j].timestamp)
        /\ \A ts \in GoodStamps :
               WithStamp(transitions, ts) = WithStamp(CollectTransitions(changelog, 1), ts)

----------------------------------------------------------------------------
(* The two analyses on Python objects: the transition dicts live in         *)
(* memory.objects, a list holds references (positions in memory.objects)    *)

\* Faulty variant: the event is the transition itself, not a copy of it.
SameDict(objects, ref) == [objects |-> objects, ref |-> ref]

\* dict(transition) (line 87): a new dict with the same keys and values
dict_copy(objects, ref) ==
    [objects |-> Append(objects, objects[ref]), ref |-> Len(objects) + 1]

\* d[key] = value (line 88)
dict_setitem(objects, ref, key, value) ==
    [objects EXCEPT ![ref] =
        [k \in DOMAIN objects[ref] \cup {key} |->
            IF k = key THEN value ELSE objects[ref][k]]]

\* the dicts a list of references points to
Deref(objects, refs) == [i \in 1..Len(refs) |-> objects[refs[i]]]

\* the state of memory when a freshly extracted list is handed to a call
Load(list) ==
    [objects |-> list, input |-> [i \in 1..Len(list) |-> i], output |-> <<>>]

\* lines 80-89 on objects: the plain event is the transition dict itself,
\* the blocked event is a copy that receives the is_blocked key
DetectBodyInMemory(mem, ref) ==
    LET transition == mem.objects[ref]
        from_index == _workflow_index(transition.from_status)
        to_index == _workflow_index(transition.to_status)
        out1 == IF IsBounceBack(from_index, to_index)
                THEN list_append(mem.output, ref)
                ELSE mem.output
    IN  IF IsBlockedEntry(transition.to_status)
        THEN LET copied == dict_copy(mem.objects, ref)
             IN  [objects |-> dict_setitem(copied.objects, copied.ref, "is_blocked", TRUE),
                  input |-> mem.input,
                  output |-> list_append(out1, copied.ref)]
        ELSE [objects |-> mem.objects, input |-> mem.input, output |-> out1]

RECURSIVE DetectLoopInMemory(_, _)
DetectLoopInMemory(mem, i) ==
    IF i > Len(mem.input) THEN mem
    ELSE DetectLoopInMemory(DetectBodyInMemory(mem, mem.input[i]), i + 1)

\* detect_bounce_backs(transitions) (lines 77-91); the result list is memory.output
detect_in_memory(mem) ==
    DetectLoopInMemory([objects |-> mem.objects, input |-> mem.input, output |-> <<>>], 1)

\* the periods returned are new dicts; an exception leaves memory as it was
WithOutcome(mem, outcome) ==
    [outcome |-> outcome,
     memory |->
        IF outcome.kind = "return"
        THEN [objects |-> mem.objects \o outcome.value,
              input |-> mem.input,
              output |-> [i \in 1..Len(outcome.value) |-> Len(mem.objects) + i]]
        ELSE mem]

\* compute_time_in_states (lines 102-137) only reads the transition dicts
compute_in_memory(mem, created, clock_hour) ==
    WithOutcome(mem, compute_time_in_states(Deref(mem.objects, mem.input),
                                            created, clock_hour))

FrameInputs ==
    {[timestamp |-> ts, from_status |-> st[1], to_status |-> st[2], author |-> "Unknown"] :
        ts \in {Stamp(0, Zulu), Stamp(MaxWall, Zulu)},
        st \in {<<ToDo, InProgress>>, <<InReview, InProgress>>, <<InReview, BlockedPadded>>}}

InitFrame ==
    /\ pc = "ready"
    /\ changelog = <<>>
    /\ transitions \in {SortByTimestamp(l) : l \in ListsOf(FrameInputs, MaxLen)}
    /\ created_date \in {None, Stamp(0, Zulu)}
    /\ clock = MaxWall + 1
    /\ bounce_backs = <<>>
    /\ time_in_states = Return(<<>>, 0)
    /\ issue_keys = <<>>
    /\ server = <<>>
    /\ index = 0
    /\ all_ticket_data = <<>>
    /\ warnings = <<>>
    /\ session_state = <<>>
    /\ memory = Load(transitions)
    /\ start_at = 0
    /\ all_histories = <<>>
    /\ response = NoResponse
    /\ issue = None

\* dashboard.py line 134
DetectInMemory ==
    /\ pc = "ready"
    /\ memory' = detect_in_memory(memory)
    /\ bounce_backs' = Deref(memory'.objects, memory'.output)
    /\ pc' = "detected"
    /\ UNCHANGED <<changelog, transitions, created_date, clock, time_in_states,
                   issue_keys, server, index, all_ticket_data, warnings,
                   session_state, start_at, all_histories, response, issue>>

\* dashboard.py line 135, which follows line 134 in the same pass
ComputeInMemory ==
    /\ pc = "detected"
    /\ \E result \in {compute_in_memory(memory, created_date, clock)} :
           /\ memory' = result.memory
           /\ time_in_states' = result.outcome
    /\ pc' = "computed"
    /\ UNCHANGED <<changelog, transitions, created_date, clock, bounce_backs,
                   issue_keys, server, index, all_ticket_data, warnings,
                   session_state, start_at, all_histories, response, issue>>

NextFrame == DetectInMemory \/ ComputeInMemory

SpecFrame == InitFrame /\ [][NextFrame]_vars

\* C11: after detect_bounce_backs and after compute_time_in_states the input
\* list has the length and order it had, every input transition has the
\* fields and values it had (transitions holds them as they were handed in),
\* and is_blocked sits only on dicts that are not in the input list.
C11_InputLeftUnchanged ==
    pc \in {"detected", "computed"} =>
        /\ memory.input = [i \in 1..Len(transitions) |-> i]
        /\ Deref(memory.objects, memory.input) = transitions
        /\ \A r \in 1..Len(memory.objects) :
               "is_blocked" \in DOMAIN memory.objects[r]
                   => \A i \in 1..Len(memory.input) : memory.input[i] # r

C11_Witness ==
    /\ pc = "computed"
    /\ Len(transitions) = 2
    /\ \E j \in 1..Len(bounce_backs) : IsBlockedEventRec(bounce_backs[j])
    /\ \E j \in 1..Len(bounce_backs) : IsPlainEventRec(bounce_backs[j])
    /\ time_in_states.kind = "return"
    /\ Len(time_in_states.value) = 3

\* the calls on objects return what the calls on values return
InMemoryAgreesWithValues ==
    /\ pc = "detected" => bounce_backs = detect_bounce_backs(transitions)
    /\ pc = "computed" =>
           time_in_states = compute_time_in_states(transitions, created_date, clock)

----------------------------------------------------------------------------
(* Scenario: get_changelog paging through the changelog of one issue; the  *)
(* server chooses every response                                           *)

\* d.get(key, default)
dict_get(d, key, default) == IF key \in DOMAIN d THEN d[key] ELSE default

Pages == ListsOf({History(Stamp(0, Zulu), <<>>)}, MaxPage)

\* JSON bodies of a 200 answer: "values" and "total" may each be missing
Bodies ==
    [values : Pages, total : 0..MaxTotal]
        \cup [values : Pages]
        \cup [total : 0..MaxTotal]

\* what requests.get may return (line 53) while the accumulated list has
\* room for `room` more histories
Responses(room) ==
    {[status_code |-> 200, data |-> b] :
        b \in {d \in Bodies : Len(dict_get(d, "values", <<>>)) <= room}}
        \cup {[status_code |-> 500, data |-> [values |-> <<>>]]}

InitChangelog ==
    /\ pc = "request"
    /\ changelog = <<>>
    /\ transitions = <<>>
    /\ created_date = None
    /\ clock = MaxWall + 1
    /\ bounce_backs = <<>>
    /\ time_in_states = Return(<<>>, 0)
    /\ issue_keys = <<>>
    /\ server = <<>>
    /\ index = 0
    /\ all_ticket_data = <<>>
    /\ warnings = <<>>
    /\ session_state = <<>>
    /\ NoFetch

\* what the server answers to the dashboard's request for the page at
\* start: part of the changelog it holds for the ticket (an empty page
\* included) with the length of that changelog as "total", or an error
StoredAnswers(stored, start) ==
    {[status_code |-> 200,
      data |-> [values |-> SubSeq(stored, start + 1, start + n), total |-> Len(stored)]] :
        n \in 0..(IF Len(stored) - start < MaxPage THEN Len(stored) - start ELSE MaxPage)}
        \cup {[status_code |-> 500, data |-> [values |-> <<>>]]}

\* a call made by the dashboard is answered from the ticket the server holds
\* for the current key; a call on its own is answered by any server
ChangelogAnswers ==
    IF issue_keys = <<>>
    THEN Responses(MaxHistories - Len(all_histories))
    ELSE StoredAnswers(server[issue_keys[index + 1]].changelog, start_at)

\* lines 51-53: the request for the page at start_at and the server's answer
SendRequest ==
    /\ pc = "request"
    /\ \E r \in ChangelogAnswers : response' = r
    /\ pc' = "response"
    /\ UNCHANGED <<changelog, transitions, created_date, clock, bounce_backs,
                   time_in_states, issue_keys, server, index, all_ticket_data,
                   warnings, session_state, memory, start_at, all_histories, issue>>

\* lines 55-66: the rest of one pass of the while loop
HandleResponse ==
    /\ pc = "response"
    /\ IF response.status_code # 200
       THEN /\ pc' = "returned"
            /\ changelog' = all_histories
            /\ UNCHANGED <<all_histories, start_at>>
       ELSE LET data == response.data
                values == dict_get(data, "values", <<>>)
            IN  /\ all_histories' = all_histories \o values
                /\ IF start_at + Len(values) >= dict_get(data, "total", 0)
                   THEN /\ pc' = "returned"
                        /\ changelog' = all_histories'
                        /\ UNCHANGED start_at
                   ELSE /\ pc' = "request"
                        /\ start_at' = start_at + Len(values)
                        /\ UNCHANGED changelog
    /\ UNCHANGED <<transitions, created_date, clock, bounce_backs,
                   time_in_states, issue_keys, server, index, all_ticket_data,
                   warnings, session_state, memory, response, issue>>

\* requests.get raises in get_changelog (line 53): no answer within the 30 s
\* timeout, or the connection is lost.  Nothing catches the exception; it
\* ends the call, and in the dashboard the script run.
RequestRaises ==
    /\ pc = "request"
    /\ pc' = "crashed"
    /\ UNCHANGED <<changelog, transitions, created_date, clock, bounce_backs,
                   time_in_states, issue_keys, server, index, all_ticket_data,
                   warnings, session_state, memory, start_at, all_histories,
                   response, issue>>

NextChangelog == SendRequest \/ HandleResponse \/ RequestRaises

\* the call keeps running and every request is answered
SpecChangelog ==
    InitChangelog /\ [][NextChangelog]_vars /\ WF_vars(NextChangelog)

\* C12: whatever the server answers, the pagination loop eventually stops:
\* get_changelog returns (or is ended by an exception of requests.get).
C12_PaginationTerminates == <>(pc \in {"returned", "crashed"})

\* a pass that goes round again moves start_at by the size of the page, so
\* an empty page below "total" repeats the same request
EmptyPageRepeatsRequest ==
    [][(pc = "response" /\ pc' = "request")
            => start_at' = start_at + Len(dict_get(response.data, "values", <<>>))]_vars

\* when the call returns, it returns the histories accumulated
ReturnsAccumulated ==
    pc = "returned" => changelog = all_histories /\ Len(all_histories) >= start_at

----------------------------------------------------------------------------
(* Scenario: the "Fetch and Analyze Tickets" loop of the dashboard; each   *)
(* action is one request to the server and the code that follows it up to  *)
(* the next request                                                        *)

EmptyDict == [k \in {} |-> None]

\* what the server holds for a key
Missing ==
    [found |-> FALSE, created |-> None, changelog |-> <<>>, summary |-> "",
     assignee |-> None, status |-> None, worklogs |-> <<>>]
NoHistory ==
    [found |-> TRUE, created |-> Stamp(0, Zulu), changelog |-> <<>>,
     summary |-> "Set up board", assignee |-> None, status |-> [name |-> "To Do"],
     worklogs |-> <<>>]
Healthy ==
    [found |-> TRUE, created |-> Stamp(0, Zulu),
     changelog |-> << History(Stamp(0, PlusTwoCompact), <<StatusItem(ToDo, InReview)>>),
                      History(Stamp(MaxWall, Zulu), <<StatusItem(InReview, InProgress)>>) >>,
     summary |-> "Fix login", assignee |-> [displayName |-> "Ann"],
     status |-> [name |-> "In Progress"],
     worklogs |-> << [timeSpentSeconds |-> 5400], [comment |-> "pairing"] >>]
BadStamp ==
    [found |-> TRUE, created |-> Stamp(0, Zulu),
     changelog |-> << History(Stamp(0, Zulu), <<StatusItem(ToDo, InProgress)>>),
                      History(Stamp(MaxWall, Garbled), <<StatusItem(InProgress, Blocked)>>) >>,
     summary |-> "Import data", assignee |-> None, status |-> None,
     worklogs |-> <<>>]

TicketKinds == {Missing, NoHistory, Healthy, BadStamp}

NoTicketData == [has |-> FALSE, ticket_data |-> <<>>]

\* the JSON body of the issue.  The request asks for summary, status,
\* assignee, description and comment (jira_client.py line 38): a server that
\* honours "fields" leaves "created" out, one that ignores it sends it.
IssueBody(key, ticket, with_created) ==
    [key |-> key,
     fields |->
        IF with_created
        THEN [summary |-> ticket.summary, status |-> ticket.status,
              assignee |-> ticket.assignee, created |-> ticket.created]
        ELSE [summary |-> ticket.summary, status |-> ticket.status,
              assignee |-> ticket.assignee]]

\* answers to the request of get_issue (line 39)
IssueAnswers(key, ticket) ==
    IF ticket.found
    THEN {[status_code |-> 200, data |-> IssueBody(key, ticket, with_created)] :
              with_created \in BOOLEAN}
    ELSE {[status_code |-> 404, data |-> EmptyDict]}

\* lines 40-42 of get_issue: the body of a 200 answer, else None
get_issue(answer) == IF answer.status_code = 200 THEN answer.data ELSE None

\* answers to the request of get_worklogs (line 72)
WorklogAnswers(ticket) ==
    {[status_code |-> 200, data |-> [worklogs |-> ticket.worklogs]],
     [status_code |-> 500, data |-> EmptyDict]}

\* lines 73-75 of get_worklogs
get_worklogs(answer) ==
    IF answer.status_code = 200 THEN dict_get(answer.data, "worklogs", <<>>) ELSE <<>>

RECURSIVE SumTimeSpent(_)
SumTimeSpent(worklogs) ==
    IF worklogs = <<>> THEN 0
    ELSE dict_get(Head(worklogs), "timeSpentSeconds", 0) + SumTimeSpent(Tail(worklogs))

\* utils.py lines 140-143, in hundredths of an hour
total_worklog_hours(worklogs) ==
    HundredthsOfHour([sec |-> SumTimeSpent(worklogs), usec |-> 0])

\* value or {}
OrEmpty(value) == IF value = None THEN EmptyDict ELSE value

\* the dict appended at lines 145-157 (its "description" and
\* "testim_references", taken from the issue text, are left out)
TicketData(key, fields, found_transitions, events, periods, worklogs) ==
    [key |-> key,
     summary |-> dict_get(fields, "summary", ""),
     assignee |-> dict_get(OrEmpty(dict_get(fields, "assignee", None)),
                           "displayName", "Unassigned"),
     status |-> dict_get(OrEmpty(dict_get(fields, "status", None)), "name", "Unknown"),
     transitions |-> found_transitions,
     bounce_backs |-> events,
     bounce_back_count |-> Len(events),
     time_in_states |-> periods,
     hours_logged |-> total_worklog_hours(worklogs)]

InitBatch ==
    /\ pc = "fetching"
    /\ NoFetch
    /\ \E n \in 1..MaxKeys :
           /\ issue_keys = [i \in 1..n |-> i]
           /\ server \in [1..n -> TicketKinds]
    /\ index = 0
    /\ all_ticket_data = <<>>
    /\ warnings = <<>>
    /\ session_state = NoTicketData
    /\ changelog = <<>>
    /\ transitions = <<>>
    /\ created_date = None
    /\ clock = MaxWall + 1
    /\ bounce_backs = <<>>
    /\ time_in_states = Return(<<>>, 0)

\* lines 124-127: get_issue returns None, a warning is shown, next key
SkipUnfetched ==
    /\ pc = "fetching"
    /\ index < Len(issue_keys)
    /\ \E answer \in IssueAnswers(issue_keys[index + 1], server[issue_keys[index + 1]]) :
           /\ get_issue(answer) = None
           /\ issue' = get_issue(answer)
    /\ warnings' = Append(warnings, issue_keys[index + 1])
    /\ index' = index + 1
    /\ UNCHANGED <<pc, changelog, transitions, created_date, clock, bounce_backs,
                   time_in_states, issue_keys, server, all_ticket_data,
                   session_state, memory, start_at, all_histories, response>>

\* lines 124-130: get_issue returns the issue and get_changelog is entered
\* (jira_client.py lines 47-48)
FetchIssue ==
    /\ pc = "fetching"
    /\ index < Len(issue_keys)
    /\ \E answer \in IssueAnswers(issue_keys[index + 1], server[issue_keys[index + 1]]) :
           /\ get_issue(answer) # None
           /\ issue' = get_issue(answer)
    /\ all_histories' = <<>>
    /\ start_at' = 0
    /\ pc' = "request"
    /\ UNCHANGED <<changelog, transitions, created_date, clock, bounce_backs,
                   time_in_states, issue_keys, server, index, all_ticket_data,
                   warnings, session_state, memory, response>>

\* lines 133-135 on the changelog fetched and the fields of the issue
Analysed(fields, found_transitions) ==
    [fields |-> fields,
     transitions |-> found_transitions,
     bounce_backs |-> detect_bounce_backs(found_transitions),
     outcome |-> compute_time_in_states(found_transitions,
                                        dict_get(fields, "created", None), clock)]
Analysis == Analysed(dict_get(issue, "fields", EmptyDict),
                     extract_status_transitions(changelog))

\* lines 131-157: get_changelog has returned; get_worklogs is answered, the
\* ticket is analysed and appended
AnalyzeTicket ==
    /\ pc = "returned"
    /\ index < Len(issue_keys)
    /\ \E answer \in WorklogAnswers(server[issue_keys[index + 1]]), a \in {Analysis} :
           /\ a.outcome.kind = "return"
           /\ created_date' = dict_get(a.fields, "created", None)
           /\ transitions' = a.transitions
           /\ bounce_backs' = a.bounce_backs
           /\ time_in_states' = a.outcome
           /\ all_ticket_data' =
                  Append(all_ticket_data,
                         TicketData(issue_keys[index + 1], a.fields, a.transitions,
                                    a.bounce_backs, a.outcome.value,
                                    get_worklogs(answer)))
    /\ index' = index + 1
    /\ pc' = "fetching"
    /\ UNCHANGED <<changelog, clock, issue_keys, server, warnings, session_state,
                   memory, start_at, all_histories, response, issue>>

\* lines 131-135: get_worklogs is answered and compute_time_in_states
\* raises; nothing in the loop catches it, so the exception ends the script run
AnalysisRaises ==
    /\ pc = "returned"
    /\ index < Len(issue_keys)
    /\ \E answer \in WorklogAnswers(server[issue_keys[index + 1]]), a \in {Analysis} :
           /\ a.outcome.kind = "raise"
           /\ created_date' = dict_get(a.fields, "created", None)
           /\ transitions' = a.transitions
           /\ bounce_backs' = a.bounce_backs
           /\ time_in_states' = a.outcome
    /\ pc' = "crashed"
    /\ UNCHANGED <<changelog, clock, issue_keys, server, index, all_ticket_data,
                   warnings, session_state, memory, start_at, all_histories,
                   response, issue>>

\* requests.get raises in get_issue (jira_client.py line 39)
IssueRequestRaises ==
    /\ pc = "fetching"
    /\ index < Len(issue_keys)
    /\ pc' = "crashed"
    /\ UNCHANGED <<changelog, transitions, created_date, clock, bounce_backs,
                   time_in_states, issue_keys, server, index, all_ticket_data,
                   warnings, session_state, memory, start_at, all_histories,
                   response, issue>>

\* requests.get raises in get_worklogs (jira_client.py line 72)
WorklogRequestRaises ==
    /\ pc = "returned"
    /\ index < Len(issue_keys)
    /\ pc' = "crashed"
    /\ UNCHANGED <<changelog, transitions, created_date, clock, bounce_backs,
                   time_in_states, issue_keys, server, index, all_ticket_data,
                   warnings, session_state, memory, start_at, all_histories,
                   response, issue>>

\* lines 159-165: after the loop, st.stop() when nothing was fetched,
\* otherwise the result is stored in the session state
FinishBatch ==
    /\ pc = "fetching"
    /\ index = Len(issue_keys)
    /\ IF all_ticket_data = <<>>
       THEN pc' = "stopped" /\ UNCHANGED session_state
       ELSE /\ pc' = "done"
            /\ session_state' = [has |-> TRUE, ticket_data |-> all_ticket_data]
    /\ UNCHANGED <<changelog, transitions, created_date, clock, bounce_backs,
                   time_in_states, issue_keys, server, index, all_ticket_data,
                   warnings, memory, start_at, all_histories, response, issue>>

NextBatch ==
    \/ SkipUnfetched
    \/ FetchIssue
    \/ SendRequest
    \/ HandleResponse
    \/ RequestRaises
    \/ IssueRequestRaises
    \/ WorklogRequestRaises
    \/ AnalyzeTicket
    \/ AnalysisRaises
    \/ FinishBatch

SpecBatch == InitBatch /\ [][NextBatch]_vars

BatchOver == pc \in {"done", "stopped", "crashed"}

\* the run was ended by compute_time_in_states raising, not by a request
CrashedInAnalysis == pc = "crashed" /\ time_in_states.kind = "raise"

\* a ticket the server holds and whose timestamps all parse
CanBeAnalysed(key) == server[key] \in {NoHistory, Healthy}

InResult(key) ==
    /\ session_state.has
    /\ \E j \in 1..Len(session_state.ticket_data) :
           session_state.ticket_data[j].key = key

\* C7: when the batch run is over, every ticket that can be analysed is in
\* the result, whatever happened to the other tickets of the batch (one that
\* cannot be fetched, one whose history holds an unparseable timestamp).
C7_OtherTicketsStillAnalysed ==
    (BatchOver /\ (pc = "crashed" => CrashedInAnalysis)) =>
        \A k \in 1..Len(issue_keys) :
            CanBeAnalysed(issue_keys[k]) => InResult(issue_keys[k])

\* what the code does ensure: a ticket that cannot be fetched is reported and
\* skipped, and a run that reaches its end holds every analysable ticket
UnfetchedTicketsAreSkipped ==
    pc = "done" =>
        \A k \in 1..Len(issue_keys) :
            /\ CanBeAnalysed(issue_keys[k]) => InResult(issue_keys[k])
            /\ ~server[issue_keys[k]].found
                   => \E j \in 1..Len(warnings) : warnings[j] = issue_keys[k]

====
